---- MODULE Spec2Model ----
(***************************************************************************)
(* Model of caffe2/python/modeling/parameter_sharing.py.                   *)
(*                                                                         *)
(* Python strings are sequences of one-character strings, so that split,   *)
(* join, startswith and concatenation are computed character by character. *)
(* A Python dict is a function whose domain is the set of its keys.  A     *)
(* dict given as an argument (shared_scopes) is the sequence of its        *)
(* (key, value) items in iteration order, keys pairwise distinct.          *)
(***************************************************************************)
EXTENDS Integers, Sequences, FiniteSets, TLC

VARIABLES scope_overrides, contexts, namescope, ns_saved, open, raised, op, ret,
          out_of_order

vars == <<scope_overrides, contexts, namescope, ns_saved, open, raised, op, ret,
          out_of_order>>

(* ---------------- bounds of the model ---------------- *)

\* largest number of ParameterSharing blocks open at the same time
MaxOpen == 3

(* ---------------- strings ---------------- *)

\* scope._NAMESCOPE_SEPARATOR
NAMESCOPE_SEPARATOR == "/"

SEP == <<NAMESCOPE_SEPARATOR>>

\* str.startswith
StartsWith(s, prefix) ==
    /\ Len(prefix) <= Len(s)
    /\ SubSeq(s, 1, Len(prefix)) = prefix

\* positions of the separator in s
SepPositions(s) == {i \in 1..Len(s) : s[i] = NAMESCOPE_SEPARATOR}

SetMin(S) == CHOOSE x \in S : \A y \in S : x <= y

SetMax(S) == CHOOSE x \in S : \A y \in S : y <= x

\* str.split(sep): the list of the pieces between separators, so that a
\* string without separator gives one piece and a trailing separator gives
\* a last empty piece
RECURSIVE Split(_)
Split(s) ==
    LET positions == SepPositions(s)
    IN  IF positions = {}
        THEN <<s>>
        ELSE LET i == SetMin(positions)
             IN  <<SubSeq(s, 1, i - 1)>> \o Split(SubSeq(s, i + 1, Len(s)))

\* sep.join(list)
RECURSIVE Join(_)
Join(pieces) ==
    IF Len(pieces) = 0 THEN <<>>
    ELSE IF Len(pieces) = 1 THEN pieces[1]
    ELSE pieces[1] \o SEP \o Join(Tail(pieces))

NormalizeOmitted(ns) == ns

\* _normalize_namescope: a non-empty namescope gets a trailing separator
\* unless it has one, the empty namescope stays empty
_normalize_namescope(ns) ==
    IF ns # <<>> /\ ns[Len(ns)] # NAMESCOPE_SEPARATOR
    THEN ns \o SEP
    ELSE ns

(* ---------------- dicts ---------------- *)

EmptyDict == [k \in {} |-> <<>>]

\* d[k] = v
DictSet(d, k, v) == [x \in DOMAIN d \cup {k} |-> IF x = k THEN v ELSE d[x]]

\* dict.update(other)
DictUpdate(d, other) ==
    [x \in DOMAIN d \cup DOMAIN other |-> IF x \in DOMAIN other THEN other[x] ELSE d[x]]

(* ---------------- _resolve_scope_overrides ---------------- *)

\* cur_scope after the loop body has run for index idx (0-based):
\* every piece up to idx, each followed by the separator
RECURSIVE CurScope(_, _)
CurScope(sub_scopes, idx) ==
    IF idx < 0 THEN <<>>
    ELSE CurScope(sub_scopes, idx - 1) \o sub_scopes[idx + 1] \o SEP

MatchIdxShort(overrides, sub_scopes) ==
    {idx \in 0..(Len(sub_scopes) - 2) : CurScope(sub_scopes, idx) \in DOMAIN overrides}

\* the indices (0-based) at which `cur_scope in self._scope_overrides` holds
MatchIdx(overrides, sub_scopes) ==
    {idx \in 0..(Len(sub_scopes) - 1) : CurScope(sub_scopes, idx) \in DOMAIN overrides}

\* the index left in best_scope_idx by the loop: the last match overwrites
\* the earlier ones
PickIdxFirst(matches) == SetMin(matches)

PickIdx(matches) == SetMax(matches)

BestScopeIdx(overrides, sub_scopes) ==
    LET matches == MatchIdx(overrides, sub_scopes)
    IN  IF matches = {} THEN 0 ELSE PickIdx(matches)

BestScope(overrides, candidate_scope) ==
    LET sub_scopes == Split(candidate_scope)
        matches == MatchIdx(overrides, sub_scopes)
    IN  IF matches = {} THEN candidate_scope
        ELSE overrides[CurScope(sub_scopes, PickIdx(matches))]

RemainderFromMatch(sub_scopes, best_scope_idx) ==
    Join(SubSeq(sub_scopes, best_scope_idx + 1, Len(sub_scopes)))

\* sub_scopes[best_scope_idx + 1:] joined with the separator
Remainder(sub_scopes, best_scope_idx) ==
    Join(SubSeq(sub_scopes, best_scope_idx + 2, Len(sub_scopes)))

Returned(s) == [ok |-> TRUE, val |-> s]

RecursionCutOff == [ok |-> TRUE, val |-> <<>>]

\* the recursion never reaches a base case: Python ends it with RecursionError
RecursionError == [ok |-> FALSE, val |-> <<>>]

BaseCaseNormalized(candidate_scope) == _normalize_namescope(candidate_scope)

\* what the base case returns
BaseCase(candidate_scope) == candidate_scope

IsBaseCaseNoMatch(overrides, candidate_scope) ==
    MatchIdx(overrides, Split(candidate_scope)) = {}

\* the test `best_scope == candidate_scope`: true when no prefix matched and
\* also when the target of the last match is the candidate itself
IsBaseCase(overrides, candidate_scope) ==
    BestScope(overrides, candidate_scope) = candidate_scope

\* depth is the number of further recursive calls after which the recursion
\* is known not to end
RECURSIVE ResolveRec(_, _, _)
ResolveRec(overrides, candidate_scope, depth) ==
    LET sub_scopes == Split(candidate_scope)
        best_scope == BestScope(overrides, candidate_scope)
        best_scope_idx == BestScopeIdx(overrides, sub_scopes)
    IN  IF IsBaseCase(overrides, candidate_scope)
        THEN Returned(BaseCase(candidate_scope))
        ELSE IF depth = 0 THEN RecursionError
        ELSE LET inner == ResolveRec(overrides, best_scope, depth - 1)
             IN  IF inner.ok
                 THEN Returned(inner.val \o Remainder(sub_scopes, best_scope_idx))
                 ELSE RecursionError

\* Every recursive call is made on a value of the dict, so a recursion that
\* makes more calls than the dict has keys repeats an argument and never ends.
RecursionDepth(overrides) == Cardinality(DOMAIN overrides)

resolve_scope_overrides(overrides, candidate_scope) ==
    ResolveRec(overrides, candidate_scope, RecursionDepth(overrides))

\* the number of calls of _resolve_scope_overrides made to resolve the
\* candidate (the outer call included), as far as the recursion is followed
RECURSIVE ResolveCalls(_, _, _)
ResolveCalls(overrides, candidate_scope, depth) ==
    IF IsBaseCase(overrides, candidate_scope) \/ depth = 0 THEN 1
    ELSE 1 + ResolveCalls(overrides, BestScope(overrides, candidate_scope), depth - 1)

OverridesAfterResolveMemo(overrides, candidate_scope) ==
    LET r == resolve_scope_overrides(overrides, candidate_scope)
    IN  IF r.ok THEN DictSet(overrides, candidate_scope, r.val) ELSE overrides

\* self._scope_overrides after a call of _resolve_scope_overrides: the
\* method only reads it
OverridesAfterResolve(overrides, candidate_scope) == overrides

get_parameter_name_sep(overrides, current_scope, name) ==
    LET best_scope == resolve_scope_overrides(overrides, current_scope)
    IN  IF best_scope.ok THEN Returned(best_scope.val \o SEP \o name) ELSE RecursionError

\* get_parameter_name, with the value of scope.CurrentNameScope() as argument
get_parameter_name(overrides, current_scope, name) ==
    LET best_scope == resolve_scope_overrides(overrides, current_scope)
    IN  IF best_scope.ok THEN Returned(best_scope.val \o name) ELSE RecursionError

(* ---------------- ParameterSharing: validation and qualification -------- *)

RulePassesReversed(k, v) == ~StartsWith(k, v)

RulePassesUnlessEqual(k, v) == v # k

\* the condition of the assert on one item (k, v)
RulePasses(k, v) == ~StartsWith(v, k)

\* no item of shared_scopes makes the assert fail
AllRulesPass(shared_scopes) ==
    \A i \in 1..Len(shared_scopes) : RulePasses(shared_scopes[i][1], shared_scopes[i][2])

RECURSIVE SharedScopeOverridesTargetUnqualified(_, _)
SharedScopeOverridesTargetUnqualified(shared_scopes, current_scope) ==
    IF shared_scopes = <<>> THEN EmptyDict
    ELSE LET n == Len(shared_scopes)
             k == _normalize_namescope(current_scope \o shared_scopes[n][1])
             v == _normalize_namescope(shared_scopes[n][2])
         IN  DictSet(SharedScopeOverridesTargetUnqualified(SubSeq(shared_scopes, 1, n - 1),
                                                           current_scope), k, v)

\* shared_scope_overrides after the loop over shared_scopes.items()
RECURSIVE SharedScopeOverrides(_, _)
SharedScopeOverrides(shared_scopes, current_scope) ==
    IF shared_scopes = <<>> THEN EmptyDict
    ELSE LET n == Len(shared_scopes)
             k == _normalize_namescope(current_scope \o shared_scopes[n][1])
             v == _normalize_namescope(current_scope \o shared_scopes[n][2])
         IN  DictSet(SharedScopeOverrides(SubSeq(shared_scopes, 1, n - 1), current_scope), k, v)

(* ---------------- ParameterSharingContext.pop ---------------- *)

PopPreconditionDropped(ctxs) == TRUE

\* assert len(self._contexts) > 0
PopPrecondition(ctxs) == Len(ctxs) > 0

\* dict(*args): no argument gives the empty dict, one argument (the items of
\* a dict) gives a dict with these items, more arguments raise TypeError
DictOfArgs(args) ==
    IF Len(args) = 0 THEN [ok |-> TRUE, val |-> EmptyDict]
    ELSE IF Len(args) = 1 THEN [ok |-> TRUE, val |-> args[1]]
    ELSE [ok |-> FALSE, val |-> EmptyDict]

\* itertools.chain called with ONE iterable, the list of the items() of the
\* frames, yields the elements of that list: one argument per frame
ChainedArgs(ctxs) == ctxs

\* The effect of pop() on (self._contexts, self._scope_overrides) and the
\* exception it raises ("none" when it returns).
Pop(ctxs, overrides) ==
    IF ~PopPrecondition(ctxs)
    THEN [contexts |-> ctxs, scope_overrides |-> overrides, raised |-> "AssertionError"]
    ELSE IF Len(ctxs) = 0
    THEN [contexts |-> ctxs, scope_overrides |-> overrides, raised |-> "IndexError"]
    ELSE LET rest == SubSeq(ctxs, 1, Len(ctxs) - 1)
             built == DictOfArgs(ChainedArgs(rest))
         IN  IF built.ok
             THEN [contexts |-> rest, scope_overrides |-> built.val, raised |-> "none"]
             ELSE [contexts |-> rest, scope_overrides |-> overrides, raised |-> "TypeError"]

FinallyRunsOnSuccess(exc) == exc = "none"

\* the finally clause runs pop() whatever way the body is left
FinallyRuns(exc) == TRUE

(* ---------------- inputs ---------------- *)

sEmpty == <<>>
sA == <<"a">>
sB == <<"b">>
sC == <<"c">>
sW == <<"w">>
sAB == <<"a", "/", "b">>
sBB == <<"b", "/", "b">>
sBC == <<"b", "/", "c">>
sAs == <<"a", "/">>
sBs == <<"b", "/">>
sCs == <<"c", "/">>
sABs == <<"a", "/", "b", "/">>
sBCs == <<"b", "/", "c", "/">>
sBBs == <<"b", "/", "b", "/">>
sSep == <<"/">>

\* rule sets that pass validation
ValidRuleSets ==
    { << <<sB, sA>> >>,
      << <<sB, sC>> >>,
      << <<sAB, sA>> >> }

\* rule sets with a rule that fails validation
InvalidRuleSets ==
    { << <<sEmpty, sA>> >>,
      << <<sEmpty, sEmpty>> >>,
      << <<sA, sAB>> >>,
      << <<sB, sA>>, <<sA, sA>> >> }

\* rule sets declared inside namespace b
NestedRuleSets == { << <<sC, sEmpty>> >>, << <<sA, sAB>> >> }

\* the argument of ParameterSharing, by the namespace it is called under
RuleSetsAt(current_scope) ==
    IF current_scope = sEmpty THEN ValidRuleSets \cup InvalidRuleSets
    ELSE IF current_scope = sBs THEN NestedRuleSets
    ELSE {}

\* the prefixes of the NameScope blocks, outermost first
NsChain == <<sB, sC>>

\* arguments of _resolve_scope_overrides
Candidates == {sEmpty, sA, sB, sBs, sAB, sBB, sBBs, sBC, sBCs}

\* arguments of get_parameter_name
ParamNames == {sW}

(* ---------------- the namespace source (caffe2.python.scope) ------------ *)

\* NameScope(prefix): the new namescope is the old one followed by the
\* prefix and the separator
NameScopeEntered(old_scope, prefix) ==
    old_scope \o (IF prefix # <<>> THEN prefix \o SEP ELSE <<>>)

(* ---------------- state machine ---------------- *)

None == [ok |-> FALSE, val |-> <<>>]

Op(name, rules, arg) == [name |-> name, rules |-> rules, arg |-> arg]

Init ==
    /\ scope_overrides = EmptyDict
    /\ contexts = <<>>
    /\ namescope = sEmpty
    /\ ns_saved = <<>>
    /\ open = <<>>
    /\ raised = "none"
    /\ op = Op("init", <<>>, <<>>)
    /\ ret = None
    /\ out_of_order = FALSE

\* with ParameterSharing(shared_scopes): the code run up to the yield
Declare(shared_scopes) ==
    /\ UNCHANGED out_of_order
    /\ raised = "none"
    /\ Len(open) < MaxOpen
    /\ op' = Op("declare", shared_scopes, namescope)
    /\ ret' = None
    /\ UNCHANGED <<namescope, ns_saved>>
    /\ IF ~AllRulesPass(shared_scopes)
       THEN /\ raised' = "AssertionError"
            /\ UNCHANGED <<scope_overrides, contexts, open>>
       ELSE LET shared_scope_overrides == SharedScopeOverrides(shared_scopes, namescope)
            IN  /\ contexts' = Append(contexts, shared_scope_overrides)
                /\ scope_overrides' = DictUpdate(scope_overrides, shared_scope_overrides)
                /\ open' = Append(open, [shared_scopes |-> shared_scopes,
                                         current_scope |-> namescope,
                                         pushed |-> shared_scope_overrides,
                                         before_overrides |-> scope_overrides,
                                         before_contexts |-> contexts])
                /\ raised' = "none"

\* leaving the innermost ParameterSharing block, at the end of its body or
\* with an exception propagating through it
ExitSharing ==
    /\ UNCHANGED out_of_order
    /\ open # <<>>
    /\ op' = Op("exit", <<>>, <<>>)
    /\ ret' = None
    /\ open' = SubSeq(open, 1, Len(open) - 1)
    /\ UNCHANGED <<namescope, ns_saved>>
    /\ IF FinallyRuns(raised)
       THEN LET out == Pop(contexts, scope_overrides)
            IN  /\ contexts' = out.contexts
                /\ scope_overrides' = out.scope_overrides
                /\ raised' = IF out.raised # "none" THEN out.raised ELSE raised
       ELSE UNCHANGED <<contexts, scope_overrides, raised>>

\* the body of an open block raises
BodyRaises ==
    /\ UNCHANGED out_of_order
    /\ raised = "none"
    /\ open # <<>>
    /\ raised' = "Exception"
    /\ op' = Op("raise", <<>>, <<>>)
    /\ ret' = None
    /\ UNCHANGED <<scope_overrides, contexts, namescope, ns_saved, open>>

\* an except clause (of the caller, at any nesting level) ends the propagation
Catch ==
    /\ UNCHANGED out_of_order
    /\ raised # "none"
    /\ raised' = "none"
    /\ op' = Op("catch", <<>>, <<>>)
    /\ ret' = None
    /\ UNCHANGED <<scope_overrides, contexts, namescope, ns_saved, open>>

\* with scope.NameScope(prefix)
EnterNameScope ==
    /\ UNCHANGED out_of_order
    /\ raised = "none"
    /\ Len(ns_saved) < Len(NsChain)
    /\ namescope' = NameScopeEntered(namescope, NsChain[Len(ns_saved) + 1])
    /\ ns_saved' = Append(ns_saved, namescope)
    /\ op' = Op("namescope", <<>>, NsChain[Len(ns_saved) + 1])
    /\ ret' = None
    /\ UNCHANGED <<scope_overrides, contexts, open, raised>>

\* leaving the innermost NameScope block
ExitNameScope ==
    /\ UNCHANGED out_of_order
    /\ ns_saved # <<>>
    /\ namescope' = ns_saved[Len(ns_saved)]
    /\ ns_saved' = SubSeq(ns_saved, 1, Len(ns_saved) - 1)
    /\ op' = Op("namescope_exit", <<>>, <<>>)
    /\ ret' = None
    /\ UNCHANGED <<scope_overrides, contexts, open, raised>>

\* parameter_sharing_context._resolve_scope_overrides(candidate_scope)
CallResolve(candidate_scope) ==
    /\ UNCHANGED out_of_order
    /\ raised = "none"
    /\ LET r == resolve_scope_overrides(scope_overrides, candidate_scope)
       IN  /\ ret' = IF r.ok THEN r ELSE None
           /\ raised' = IF r.ok THEN "none" ELSE "RecursionError"
    /\ op' = Op("resolve", <<>>, candidate_scope)
    /\ scope_overrides' = OverridesAfterResolve(scope_overrides, candidate_scope)
    /\ UNCHANGED <<contexts, namescope, ns_saved, open>>

\* parameter_sharing_context.get_parameter_name(name)
CallGetParameterName(name) ==
    /\ UNCHANGED out_of_order
    /\ raised = "none"
    /\ LET r == get_parameter_name(scope_overrides, namescope, name)
       IN  /\ ret' = IF r.ok THEN r ELSE None
           /\ raised' = IF r.ok THEN "none" ELSE "RecursionError"
    /\ op' = Op("get_parameter_name", <<>>, name)
    /\ scope_overrides' = OverridesAfterResolve(scope_overrides, namescope)
    /\ UNCHANGED <<contexts, namescope, ns_saved, open>>

\* parameter_sharing_context.pop() called directly, outside every
\* ParameterSharing block
CallPop ==
    /\ UNCHANGED out_of_order
    /\ raised = "none"
    /\ open = <<>>
    /\ LET out == Pop(contexts, scope_overrides)
       IN  /\ contexts' = out.contexts
           /\ scope_overrides' = out.scope_overrides
           /\ raised' = out.raised
    /\ op' = Op("pop", <<>>, <<>>)
    /\ ret' = None
    /\ UNCHANGED <<namescope, ns_saved, open>>

Next ==
    \/ \E shared_scopes \in RuleSetsAt(namescope) : Declare(shared_scopes)
    \/ ExitSharing
    \/ BodyRaises
    \/ Catch
    \/ EnterNameScope
    \/ ExitNameScope
    \/ \E candidate_scope \in Candidates : CallResolve(candidate_scope)
    \/ \E name \in ParamNames : CallGetParameterName(name)
    \/ CallPop

Spec == Init /\ [][Next]_vars

(* ---------------- resolution over a wider set of declarations --------- *)

\* largest number of ParameterSharing blocks open at the same time in
\* SpecWide
MaxWide == 2

\* rule sets declared at the root namespace in SpecWide
WideRuleSets ==
    { << <<sB, sA>> >>,
      << <<sA, sB>> >>,
      << <<sB, sA>>, <<sA, sB>> >>,
      << <<sAs, sA>> >>,
      << <<sC, sEmpty>> >>,
      << <<sBs, sA>> >>,
      << <<sB, sA>>, <<sBs, sC>> >>,
      << <<sAB, sA>> >>,
      << <<sA, sAB>> >> }

WideRuleSetsAt(current_scope) ==
    IF current_scope = sEmpty THEN WideRuleSets
    ELSE IF current_scope = sBs THEN { << <<sC, sEmpty>> >> }
    ELSE {}

\* arguments of _resolve_scope_overrides in SpecWide
WideCandidates == {sEmpty, sSep, sA, sAs, sB, sBs, sC, sCs, sAB, sBC}

NextWide ==
    \/ \E shared_scopes \in WideRuleSetsAt(namescope) :
          Len(open) < MaxWide /\ Declare(shared_scopes)
    \/ ExitSharing
    \/ EnterNameScope
    \/ ExitNameScope
    \/ \E candidate_scope \in WideCandidates : CallResolve(candidate_scope)
    \/ \E name \in ParamNames : CallGetParameterName(name)

SpecWide == Init /\ [][NextWide]_vars

(* ---------------- two logical scopes sharing the context -------------- *)

\* largest number of ParameterSharing blocks open at the same time in
\* SpecInterleaved
MaxInterleaved == 3

\* A ParameterSharing block that is not the one entered last is left (its
\* generator runs the finally clause) while the blocks entered after it, by
\* another logical scope, are still open: pop() removes the top frame.
ExitOutOfOrder(i) ==
    /\ raised = "none"
    /\ i \in 1..(Len(open) - 1)
    /\ op' = Op("exit_out_of_order", <<>>, <<>>)
    /\ ret' = None
    /\ open' = SubSeq(open, 1, i - 1) \o SubSeq(open, i + 1, Len(open))
    /\ out_of_order' = TRUE
    /\ UNCHANGED <<namescope, ns_saved>>
    /\ LET out == Pop(contexts, scope_overrides)
       IN  /\ contexts' = out.contexts
           /\ scope_overrides' = out.scope_overrides
           /\ raised' = out.raised

\* the arguments of ParameterSharing in SpecInterleaved: two declarations of
\* the same alias with different targets
InterleavedRuleSets == { << <<sB, sA>> >>, << <<sB, sC>> >> }

\* arguments of _resolve_scope_overrides in SpecInterleaved
InterleavedCandidates == {sB, sBC}

NextInterleaved ==
    \/ \E shared_scopes \in InterleavedRuleSets :
          Len(open) < MaxInterleaved /\ Declare(shared_scopes)
    \/ ExitSharing
    \/ Catch
    \/ \E i \in 1..MaxInterleaved : ExitOutOfOrder(i)
    \/ \E candidate_scope \in InterleavedCandidates : CallResolve(candidate_scope)

SpecInterleaved == Init /\ [][NextInterleaved]_vars

(* ---------------- properties ---------------- *)

\* the frames of a stack merged into one dict, outermost first
RECURSIVE UnionOfFrames(_)
UnionOfFrames(ctxs) ==
    IF ctxs = <<>> THEN EmptyDict
    ELSE DictUpdate(UnionOfFrames(SubSeq(ctxs, 1, Len(ctxs) - 1)), ctxs[Len(ctxs)])

\* the strings obtained from p by cutting it after one of its separators,
\* and p followed by the separator
SegmentPrefixes(p) == {SubSeq(p, 1, i) : i \in SepPositions(p)} \cup {p \o SEP}

NoPrefixIsKey(overrides, p) == SegmentPrefixes(p) \cap DOMAIN overrides = {}

QualifiedAlias(decl, j) == _normalize_namescope(decl.current_scope \o decl.shared_scopes[j][1])

QualifiedTarget(decl, j) == _normalize_namescope(decl.current_scope \o decl.shared_scopes[j][2])

\* C1: in every reachable state the override mapping equals the union of the
\* frames of the override stack, applied outermost first.
C1_MappingIsUnionOfStack == scope_overrides = UnionOfFrames(contexts)

\* C2 (as claimed): get_parameter_name returns the resolved active namespace
\* followed by the name, and for every open declaration and every rule
\* (alias, target) of it, a name under the namespace N+alias gets the same
\* parameter name as under the namespace N+target.
C2_AliasResolvesAsTarget ==
    /\ (op.name = "get_parameter_name" /\ raised = "none") =>
           ret = Returned(resolve_scope_overrides(scope_overrides, namescope).val \o op.arg)
    /\ \A i \in 1..Len(open) : \A j \in 1..Len(open[i].shared_scopes) : \A name \in ParamNames :
           get_parameter_name(scope_overrides, QualifiedAlias(open[i], j), name)
             = get_parameter_name(scope_overrides, QualifiedTarget(open[i], j), name)

\* C2 (amended): get_parameter_name returns the resolved active namespace
\* followed by the name, and for every open declaration and every rule of it
\* whose target is the value the mapping holds for the rule's key, the key
\* followed by one more separator not being a key, a name under the
\* namespace N+alias gets the same parameter name as under N+target.
C2_AliasResolvesAsRegisteredTarget ==
    /\ (op.name = "get_parameter_name" /\ raised = "none") =>
           ret = Returned(resolve_scope_overrides(scope_overrides, namescope).val \o op.arg)
    /\ \A i \in 1..Len(open) : \A j \in 1..Len(open[i].shared_scopes) : \A name \in ParamNames :
           LET K == QualifiedAlias(open[i], j)
               T == QualifiedTarget(open[i], j)
           IN  (/\ K \in DOMAIN scope_overrides
                /\ scope_overrides[K] = T
                /\ (K \o SEP) \notin DOMAIN scope_overrides)
               => get_parameter_name(scope_overrides, K, name)
                    = get_parameter_name(scope_overrides, T, name)

C2_Witness ==
    /\ op.name = "get_parameter_name"
    /\ op.arg = sW
    /\ namescope = sBs
    /\ Len(open) = 1
    /\ open[1].shared_scopes = << <<sB, sA>> >>
    /\ open[1].current_scope = sEmpty
    /\ ret = Returned(<<"a", "/", "w">>)

\* the index of the innermost frame below the top one that has key k
\* (0 when there is none)
OuterIdx(ctxs, k) ==
    LET js == {j \in 1..(Len(ctxs) - 1) : k \in DOMAIN ctxs[j]}
    IN  IF js = {} THEN 0 ELSE SetMax(js)

\* the keys of the top frame that an enclosing frame declares with a
\* different target
ShadowedKeys(ctxs) ==
    IF ctxs = <<>> THEN {}
    ELSE {k \in DOMAIN ctxs[Len(ctxs)] :
            /\ OuterIdx(ctxs, k) # 0
            /\ ctxs[OuterIdx(ctxs, k)][k] # ctxs[Len(ctxs)][k]}

\* C3: while the innermost declaration shadows a key of an enclosing one the
\* mapping holds the inner target for that key, and the step that exits the
\* inner declaration leaves the mapping holding the outer target for it.
C3_ShadowingRestored ==
    [][(op'.name = "exit") =>
          \A k \in ShadowedKeys(contexts) :
              /\ k \in DOMAIN scope_overrides
              /\ scope_overrides[k] = contexts[Len(contexts)][k]
              /\ k \in DOMAIN scope_overrides'
              /\ scope_overrides'[k] = contexts[OuterIdx(contexts, k)][k]]_vars

\* C4: the step that exits a declaration, normally or with an exception,
\* leaves the mapping and the stack equal to what they were when that
\* declaration was entered.
C4_StackBalance ==
    [][(op'.name = "exit") =>
          /\ scope_overrides' = open[Len(open)].before_overrides
          /\ contexts' = open[Len(open)].before_contexts]_vars

StackIsOpenDeclarations ==
    /\ Len(contexts) = Len(open)
    /\ \A i \in 1..Len(open) : contexts[i] = open[i].pushed

ExitPopsOnce ==
    (op'.name = "exit") =>
        /\ contexts # <<>>
        /\ contexts' = SubSeq(contexts, 1, Len(contexts) - 1)

\* C5: the frames on the override stack are exactly the frames of the
\* declarations whose scope has not ended, and every step that leaves a
\* declaration's scope, normally or with an exception, removes exactly the
\* top frame.
C5_GuaranteedRelease == [](StackIsOpenDeclarations) /\ [][ExitPopsOnce]_vars

C5_Witness ==
    /\ op.name = "exit"
    /\ raised = "Exception"
    /\ Len(contexts) = 1
    /\ Len(open) = 1

TargetIsPrefixOfAlias(rules) ==
    \E i \in 1..Len(rules) : StartsWith(rules[i][1], rules[i][2])

TargetEqualsAlias(rules) ==
    \E i \in 1..Len(rules) : rules[i][2] = rules[i][1]

TargetsAreProperPrefixes(rules) ==
    \A i \in 1..Len(rules) : StartsWith(rules[i][1], rules[i][2]) /\ rules[i][2] # rules[i][1]

Rejected ==
    /\ raised' = "AssertionError"
    /\ contexts' = contexts
    /\ scope_overrides' = scope_overrides

\* C6 (as claimed): a declaration with a rule whose target is a literal
\* prefix of its alias fails with a validation error and changes neither
\* the stack nor the mapping.
C6_TargetPrefixRejected ==
    [][(op'.name = "declare" /\ TargetIsPrefixOfAlias(op'.rules)) => Rejected]_vars

\* C6 (amended): a declaration with a rule whose target equals its alias
\* fails with a validation error and changes neither the stack nor the
\* mapping; a declaration all of whose rules have a target that is a proper
\* prefix of the alias is accepted: one frame is pushed and every qualified,
\* normalized alias is a key of the mapping.
C6_EqualRejectedProperPrefixAccepted ==
    [][(op'.name = "declare") =>
          /\ TargetEqualsAlias(op'.rules) => Rejected
          /\ TargetsAreProperPrefixes(op'.rules) =>
                /\ raised' = "none"
                /\ Len(contexts') = Len(contexts) + 1
                /\ \A i \in 1..Len(op'.rules) :
                      _normalize_namescope(namescope \o op'.rules[i][1])
                          \in DOMAIN scope_overrides']_vars

C6_Witness ==
    /\ op.name = "declare"
    /\ op.rules = << <<sAB, sA>> >>
    /\ raised = "none"
    /\ contexts # <<>>
    /\ contexts[Len(contexts)] = [k \in {sABs} |-> sAs]
    /\ sABs \in DOMAIN scope_overrides

TargetStartsWithAlias(rules) ==
    \E i \in 1..Len(rules) : StartsWith(rules[i][2], rules[i][1])

\* C7: a declaration with a rule whose target starts with its alias fails
\* with a validation error before anything is pushed: the stack, the mapping
\* and the set of open declarations are unchanged.
C7_AliasPrefixRejected ==
    [][(op'.name = "declare" /\ TargetStartsWithAlias(op'.rules)) =>
          (Rejected /\ open' = open)]_vars

C7_Witness ==
    /\ op.name = "declare"
    /\ op.rules = << <<sB, sA>>, <<sA, sA>> >>
    /\ raised = "AssertionError"
    /\ Len(contexts) = 2
    /\ Len(open) = 2
    /\ sBs \in DOMAIN scope_overrides

\* C8: pop() called on an empty stack raises the precondition error and
\* changes neither the stack nor the mapping.
C8_PopOnEmptyFails ==
    [][(op'.name = "pop" /\ contexts = <<>>) => Rejected]_vars

C8_Witness ==
    /\ op.name = "pop"
    /\ raised = "AssertionError"
    /\ contexts = <<>>
    /\ scope_overrides = EmptyDict

\* C9: resolving a namespace none of whose segment prefixes is a key of the
\* mapping returns that namespace unchanged.
C9_NoOverrideIdentity ==
    (op.name = "resolve" /\ NoPrefixIsKey(scope_overrides, op.arg)) =>
        (raised = "none" /\ ret = Returned(op.arg))

C9_Witness ==
    /\ op.name = "resolve"
    /\ scope_overrides # EmptyDict
    /\ op.arg = sA
    /\ NoPrefixIsKey(scope_overrides, op.arg)
    /\ ret = Returned(sA)

TwoHopOverrides == [k \in {sBs, sBCs} |-> IF k = sBs THEN sAs ELSE sBs]

\* C10: with b -> a declared at the root and c -> '' declared under
\* namespace b, 'b/c' resolves to 'a/' and 'w' under b/c to 'a/w'; in
\* general a key whose target is itself a key with a further target
\* resolves as that further target does.
C10_MultiHop ==
    /\ (scope_overrides = TwoHopOverrides /\ op.name = "resolve" /\ op.arg = sBC) =>
           ret = Returned(sAs)
    /\ (scope_overrides = TwoHopOverrides /\ op.name = "get_parameter_name"
          /\ namescope = sBCs) =>
           ret = Returned(sAs \o op.arg)
    /\ \A K \in DOMAIN scope_overrides :
           LET T == scope_overrides[K]
           IN  (/\ T # K
                /\ T \in DOMAIN scope_overrides
                /\ scope_overrides[T] # T
                /\ (K \o SEP) \notin DOMAIN scope_overrides
                /\ (T \o SEP) \notin DOMAIN scope_overrides)
               => resolve_scope_overrides(scope_overrides, K)
                    = resolve_scope_overrides(scope_overrides, scope_overrides[T])

C10_Witness ==
    /\ op.name = "get_parameter_name"
    /\ namescope = sBCs
    /\ Len(open) = 2
    /\ open[1].shared_scopes = << <<sB, sA>> >>
    /\ open[1].current_scope = sEmpty
    /\ open[2].shared_scopes = << <<sC, sEmpty>> >>
    /\ open[2].current_scope = sBs
    /\ scope_overrides = TwoHopOverrides
    /\ ret = Returned(<<"a", "/", "w">>)

\* the keys of the mapping among the segment prefixes of p
MatchedPrefixes(overrides, p) == SegmentPrefixes(p) \cap DOMAIN overrides

\* the longest of them
LongestKey(overrides, p) ==
    CHOOSE k \in MatchedPrefixes(overrides, p) :
        \A k2 \in MatchedPrefixes(overrides, p) : Len(k2) <= Len(k)

\* what is left of p after the key K
AfterKey(p, K) == IF Len(K) >= Len(p) THEN <<>> ELSE SubSeq(p, Len(K) + 1, Len(p))

EndsWithSep(p) == p # <<>> /\ p[Len(p)] = NAMESCOPE_SEPARATOR

OnlyBToA == [k \in {sBs} |-> sAs]

\* the conditions under which a call of resolve found an override point whose
\* target is not the candidate, and returned
ResolvedThroughKey ==
    /\ op.name = "resolve"
    /\ raised = "none"
    /\ MatchedPrefixes(scope_overrides, op.arg) # {}
    /\ scope_overrides[LongestKey(scope_overrides, op.arg)] # op.arg

ResultIsTargetPlusRest ==
    LET K == LongestKey(scope_overrides, op.arg)
        t == resolve_scope_overrides(scope_overrides, scope_overrides[K])
    IN  t.ok /\ ret = Returned(t.val \o AfterKey(op.arg, K))

\* C11 (as claimed): with only b/ -> a/ active, 'b/b' resolves to 'a/b/';
\* in general the part of the candidate after its longest overridden prefix
\* is appended to the resolved target and the result ends with the separator.
C11_ChildExclusionEndsWithSeparator ==
    /\ (op.name = "resolve" /\ scope_overrides = OnlyBToA /\ op.arg = sBB) =>
           ret = Returned(sABs)
    /\ ResolvedThroughKey => (ResultIsTargetPlusRest /\ EndsWithSep(ret.val))

\* C11 (amended): with only b/ -> a/ active, 'b/b' resolves to 'a/b' and
\* 'b/b/' to 'a/b/'; in general the part of the candidate after its longest
\* overridden prefix is appended unchanged to the resolved target, so that,
\* when that part is not empty, the result ends with the separator exactly
\* when the candidate does.
C11_ChildExclusionKeepsEnding ==
    /\ (op.name = "resolve" /\ scope_overrides = OnlyBToA /\ op.arg = sBB) =>
           ret = Returned(sAB)
    /\ (op.name = "resolve" /\ scope_overrides = OnlyBToA /\ op.arg = sBBs) =>
           ret = Returned(sABs)
    /\ ResolvedThroughKey =>
           /\ ResultIsTargetPlusRest
           /\ AfterKey(op.arg, LongestKey(scope_overrides, op.arg)) # <<>> =>
                  (EndsWithSep(ret.val) <=> EndsWithSep(op.arg))

C11_Witness ==
    /\ op.name = "resolve"
    /\ op.arg = sBB
    /\ scope_overrides = OnlyBToA
    /\ contexts = <<OnlyBToA>>
    /\ ret = Returned(sAB)

CallsMade == ResolveCalls(scope_overrides, op.arg, RecursionDepth(scope_overrides))

\* C12 (as claimed): a call of resolve that returns gives the candidate when
\* no segment prefix is a key, and otherwise the resolved target of the
\* longest matching key followed by the rest of the candidate, the target
\* being resolved by a recursive call whenever an override point is found.
C12_ReferenceAlwaysRecursive ==
    (op.name = "resolve" /\ raised = "none") =>
        IF MatchedPrefixes(scope_overrides, op.arg) = {}
        THEN ret = Returned(op.arg)
        ELSE ResultIsTargetPlusRest /\ CallsMade >= 2

\* C12 (amended): a call of resolve that returns gives the candidate when no
\* segment prefix is a key or when the target of the longest matching key is
\* the candidate itself (no recursive call is made then), and otherwise the
\* recursively resolved target of the longest matching key followed by the
\* rest of the candidate.
C12_ReferenceDefinition ==
    (op.name = "resolve" /\ raised = "none") =>
        IF MatchedPrefixes(scope_overrides, op.arg) = {}
        THEN ret = Returned(op.arg) /\ CallsMade = 1
        ELSE IF scope_overrides[LongestKey(scope_overrides, op.arg)] = op.arg
        THEN ret = Returned(op.arg) /\ CallsMade = 1
        ELSE ResultIsTargetPlusRest /\ CallsMade >= 2

C12_Witness ==
    /\ op.name = "resolve"
    /\ op.arg = sAs
    /\ Len(open) = 1
    /\ open[1].shared_scopes = << <<sAs, sA>> >>
    /\ scope_overrides = [k \in {sAs} |-> sAs]
    /\ ret = Returned(sAs)

\* C13: a pop() on a non-empty stack, of any depth, raises nothing and
\* removes exactly the top frame.
C13_PopFailsOnlyOnEmpty ==
    [][(op'.name \in {"exit", "pop"} /\ contexts # <<>>) =>
          /\ raised' = raised
          /\ contexts' = SubSeq(contexts, 1, Len(contexts) - 1)]_vars

\* the alias without its trailing separator, when it has one
AliasBase(alias) ==
    IF EndsWithSep(alias) THEN SubSeq(alias, 1, Len(alias) - 1) ELSE alias

SameKeyWithOrWithoutSeparator ==
    \A i \in 1..Len(open) : \A j \in 1..Len(open[i].shared_scopes) :
        (open[i].current_scope \o AliasBase(open[i].shared_scopes[j][1]) \o SEP)
            \in DOMAIN open[i].pushed

AllDicts == {scope_overrides} \cup {contexts[i] : i \in 1..Len(contexts)}

\* C14 (as claimed): every key and every target in the mapping and in every
\* frame ends with the separator, and an alias gives the same key with and
\* without a trailing separator.
C14_AllEndWithSeparator ==
    /\ \A d \in AllDicts : \A k \in DOMAIN d : EndsWithSep(k) /\ EndsWithSep(d[k])
    /\ SameKeyWithOrWithoutSeparator

\* C14 (amended): every key and every non-empty target in the mapping and in
\* every frame ends with the separator; a target is stored empty only for a
\* rule with the empty target declared at the root namespace; an alias
\* gives the same key with and without a trailing separator.
C14_NonEmptyEndWithSeparator ==
    /\ \A d \in AllDicts : \A k \in DOMAIN d :
           EndsWithSep(k) /\ (d[k] = <<>> \/ EndsWithSep(d[k]))
    /\ Len(contexts) = Len(open)
    /\ \A i \in 1..Len(contexts) : \A k \in DOMAIN contexts[i] :
           contexts[i][k] = <<>> =>
               /\ open[i].current_scope = <<>>
               /\ \E j \in 1..Len(open[i].shared_scopes) :
                      open[i].shared_scopes[j][2] = <<>>
    /\ SameKeyWithOrWithoutSeparator

C14_Witness ==
    /\ Len(open) = 2
    /\ open[1].shared_scopes = << <<sC, sEmpty>> >>
    /\ open[1].current_scope = sEmpty
    /\ contexts[1] = [k \in {sCs} |-> sEmpty]
    /\ open[2].shared_scopes = << <<sBs, sA>> >>
    /\ contexts[2] = OnlyBToA
    /\ op.name = "declare"

FramesAreQualifiedRules ==
    /\ Len(contexts) = Len(open)
    /\ \A i \in 1..Len(open) :
           LET rules == open[i].shared_scopes
           IN  /\ DOMAIN contexts[i] = {QualifiedAlias(open[i], j) : j \in 1..Len(rules)}
               /\ \A j \in 1..Len(rules) :
                      (\A j2 \in (j + 1)..Len(rules) :
                           QualifiedAlias(open[i], j2) # QualifiedAlias(open[i], j))
                      => contexts[i][QualifiedAlias(open[i], j)] = QualifiedTarget(open[i], j)

NamespaceStepKeepsFrames ==
    (namescope' # namescope) =>
        (contexts' = contexts /\ scope_overrides' = scope_overrides)

ExitPopsPushedFrame ==
    (op'.name = "exit") =>
        /\ contexts # <<>>
        /\ contexts[Len(contexts)] = open[Len(open)].pushed
        /\ contexts' = SubSeq(contexts, 1, Len(contexts) - 1)

\* C15: the frame of every open declaration holds its rules qualified with
\* the namespace active when it was entered, whatever the active namespace
\* is now; entering or leaving a namespace changes neither the frames nor
\* the mapping; the frame removed on exit is the one pushed on entry.
C15_QualifiedOnceAtEntry ==
    /\ [](FramesAreQualifiedRules)
    /\ [][NamespaceStepKeepsFrames]_vars
    /\ [][ExitPopsPushedFrame]_vars

C15_Witness ==
    /\ op.name = "namescope"
    /\ namescope = sBCs
    /\ Len(open) = 1
    /\ open[1].current_scope = sBs
    /\ open[1].shared_scopes = << <<sC, sEmpty>> >>
    /\ contexts = << [k \in {sBCs} |-> sBs] >>

\* the frames pushed by the declarations that are still open, oldest first
OpenFrames == [i \in 1..Len(open) |-> open[i].pushed]

\* a rule (key and target) of a still-open declaration, not shadowed by a
\* declaration opened after it, is absent from the mapping
OpenRuleAbsent ==
    \E k \in DOMAIN UnionOfFrames(OpenFrames) :
        \/ k \notin DOMAIN scope_overrides
        \/ scope_overrides[k] # UnionOfFrames(OpenFrames)[k]

\* the mapping holds a rule (key and target) of no open declaration: it was
\* left by a declaration that has exited
ExitedRuleInEffect ==
    \E k \in DOMAIN scope_overrides : \A i \in 1..Len(open) :
        \/ k \notin DOMAIN open[i].pushed
        \/ open[i].pushed[k] # scope_overrides[k]

Corrupted == OpenRuleAbsent /\ ExitedRuleInEffect

\* the exit of a declaration that is not the innermost one, the first time
\* it happens, removes the innermost frame and leaves its own
FirstOutOfOrderExitPopsInnermost ==
    (op'.name = "exit_out_of_order" /\ ~out_of_order) =>
        /\ Len(contexts) = Len(open)
        /\ contexts' = [j \in 1..(Len(open) - 1) |-> open[j].pushed]

\* C16: the exit of a declaration that is not the innermost one removes the
\* innermost frame and leaves its own, and as long as every declaration has
\* exited in the reverse order of entry there is no state in which a rule of
\* a still-open declaration is absent from the mapping while a rule of an
\* exited declaration is in effect.
C16_InterleavingCorrupts ==
    /\ [](~out_of_order => ~Corrupted)
    /\ [][FirstOutOfOrderExitPopsInnermost]_vars

\* K and its target are two different keys mapped to each other, and each
\* is the longest key among its own segment prefixes
InTwoCycle(overrides, K) ==
    /\ K \in DOMAIN overrides
    /\ overrides[K] # K
    /\ overrides[K] \in DOMAIN overrides
    /\ overrides[overrides[K]] = K
    /\ (K \o SEP) \notin DOMAIN overrides
    /\ (overrides[K] \o SEP) \notin DOMAIN overrides

\* C17: when the longest key matching the candidate is in a two-rule cycle
\* A -> B, B -> A, the call of resolve does not return: it ends with
\* RecursionError.
C17_CycleNotDetected ==
    (/\ op.name = "resolve"
     /\ MatchedPrefixes(scope_overrides, op.arg) # {}
     /\ InTwoCycle(scope_overrides, LongestKey(scope_overrides, op.arg)))
    => (raised = "RecursionError" /\ ret = None)

C17_Witness ==
    /\ op.name = "resolve"
    /\ op.arg = sAB
    /\ raised = "RecursionError"
    /\ Len(open) = 2
    /\ open[1].shared_scopes = << <<sB, sA>> >>
    /\ open[2].shared_scopes = << <<sA, sB>> >>
    /\ scope_overrides = [k \in {sAs, sBs} |-> IF k = sAs THEN sBs ELSE sAs]

\* C18: when the mapping holds exactly one rule, every call of resolve
\* returns.
C18_SingleRuleTerminates ==
    (op.name = "resolve" /\ Cardinality(DOMAIN scope_overrides) = 1)
    => (raised = "none" /\ ret.ok)

C18_Witness ==
    /\ op.name = "resolve"
    /\ op.arg = sA
    /\ Len(open) = 1
    /\ open[1].shared_scopes = << <<sAs, sA>> >>
    /\ scope_overrides = [k \in {sAs} |-> sAs]
    /\ ret = Returned(sAs)

\* C19: resolving the result of a call of resolve gives that result again.
C19_ResolveIdempotent ==
    (op.name = "resolve" /\ raised = "none") =>
        resolve_scope_overrides(scope_overrides, ret.val) = ret

ReadOnlyStep ==
    (op'.name \in {"resolve", "get_parameter_name"}) =>
        (scope_overrides' = scope_overrides /\ contexts' = contexts)

SecondCallAgrees ==
    /\ (op.name = "resolve" /\ raised = "none") =>
           resolve_scope_overrides(scope_overrides, op.arg) = ret
    /\ (op.name = "get_parameter_name" /\ raised = "none") =>
           get_parameter_name(scope_overrides, namescope, op.arg) = ret

\* C20: a call of resolve or of get_parameter_name changes neither the
\* mapping nor the stack, and the same call made again in the state it
\* leaves returns the same result.
C20_ResolutionReadOnly == [][ReadOnlyStep]_vars /\ [](SecondCallAgrees)

C20_Witness ==
    /\ op.name = "get_parameter_name"
    /\ namescope = sBs
    /\ Len(contexts) = 2
    /\ scope_overrides = UnionOfFrames(contexts)
    /\ ret = Returned(<<"c", "/", "w">>)

====
